---- MODULE Spec2Model ----
(***************************************************************************)
(* A model of cryojax's forward-imaging and likelihood core:               *)
(*   - the helical lattice generator and the assembly composer             *)
(*     (simulator/_assembly/_helix.py, simulator/assembly/_assembly.py),   *)
(*   - direct-binning projection (imaging.py),                             *)
(*   - NUFFT projection (simulator/_scattering/_nufft_project.py),         *)
(*   - the independent Fourier Gaussian distribution                       *)
(*     (inference/distributions/_gaussian_distributions.py).               *)
(*   - the routing of keyword updates exercised by tests/test_update.py.   *)
(*                                                                         *)
(* Numbers.  The code computes in floating point; the model computes in    *)
(* exact arithmetic on the values below.                                   *)
(*   - Lengths are integers.  A rise is an even integer, so that the       *)
(*     centering term rise * (N - 1) / 2 is an integer.                    *)
(*   - Angles in radians are counted in quarter turns (pi / 2): the        *)
(*     radian value q stands for q * pi / 2, so cos and sin are exact.     *)
(*     An angle in degrees is a multiple of 90.  The start number of a     *)
(*     constructed helix is 1, 2 or 4, so that 2 * pi * k / n_start is a   *)
(*     whole number of quarter turns (0 is given too, and is rejected).    *)
(*   - Rotation matrices are 3 x 3 integer matrices, tuples of rows.       *)
(***************************************************************************)
EXTENDS Integers, Sequences, FiniteSets, TLC

VARIABLES
    helix,      \* <<the Helix object constructed>>, or <<>> when there is none
    cache,      \* the instance __dict__ entries written by cached_property
    ret,        \* what the last assembly operation returned or raised
    image,      \* the last direct-binning call: its inputs and its output
    fourier,    \* the last project_with_nufft call: its inputs and its output
    dist,       \* the last log_probability call: its inputs, calls and result
    sampled,    \* the sample calls made on a distribution, in order
    made,       \* the last IndependentFourierGaussian construction
    model,      \* the last update call: its receiver, parameters and result
    old         \* <<the assembly a functional update was made from, its cache>>

vars == <<helix, cache, ret, image, fourier, dist, sampled, made, model, old>>

\* ---------------------------------------------------------------- bounds

MaxSubunits == 4
MaxShape == 3
MaxPoints == 2
MaxGrid == 2
MaxCalls == 2

\* ------------------------------------------------------- exact arithmetic

RECURSIVE SumSeq(_)
SumSeq(s) == IF s = <<>> THEN 0 ELSE Head(s) + SumSeq(Tail(s))

Identity3 == <<<<1, 0, 0>>, <<0, 1, 0>>, <<0, 0, 1>>>>

MatVec(M, v) ==
    [i \in 1..3 |-> M[i][1] * v[1] + M[i][2] * v[2] + M[i][3] * v[3]]

MatMul(A, B) ==
    [i \in 1..3 |-> [k \in 1..3 |->
        A[i][1] * B[1][k] + A[i][2] * B[2][k] + A[i][3] * B[3][k]]]

VecAdd(u, v) == [i \in 1..3 |-> u[i] + v[i]]
VecSub(u, v) == [i \in 1..3 |-> u[i] - v[i]]
VecScale(a, v) == [i \in 1..3 |-> a * v[i]]

\* jnp.cos and jnp.sin of q quarter turns.
Cos(q) == <<1, 0, -1, 0>>[(q % 4) + 1]
Sin(q) == <<0, 1, 0, -1>>[(q % 4) + 1]

\* jnp.deg2rad: degrees to quarter turns (d * pi / 180 rad = d / 90 quarter turns).
Deg2Rad(d) == d \div 90

\* The rotation about the screw axis built at _helix.py lines 169-170, 198-199.
RotZ(q) == <<<<Cos(q), 0 - Sin(q), 0>>, <<Sin(q), Cos(q), 0>>, <<0, 0, 1>>>>

\* Rotations about x and y by one quarter turn, values of rotation.as_matrix().
RotX1 == <<<<1, 0, 0>>, <<0, 0, -1>>, <<0, 1, 0>>>>
RotY1 == <<<<0, 0, 1>>, <<0, 1, 0>>, <<-1, 0, 0>>>>

\* ------------------------------------------------- lattice geometry (Helix)

\* compute_ith_subunit_position_in_subhelix without the centering term.
IthSubunitPositionUncentered(i, theta, dz, r_0, N) ==
    LET R_t == RotZ(i * theta)
    IN  VecAdd(MatVec(R_t, r_0), VecScale(i, <<0, 0, dz>>))

compute_ith_subunit_position_in_subhelix(i, theta, dz, r_0, N) ==
    LET R_t == RotZ(i * theta)
        r_i == VecAdd(MatVec(R_t, r_0), VecScale(i, <<0, 0, dz>>))
    IN  VecSub(r_i, <<0, 0, (dz * (N - 1)) \div 2>>)

\* symmetry_angles: 2 * pi * n / n_start for n in range(n_start), in quarter turns.
symmetry_angles(n_start) == [k \in 1..n_start |-> (4 * (k - 1)) \div n_start]

compute_helix_subunit_positions_per_start(symmetry_angle, r) ==
    LET R_n == RotZ(symmetry_angle)
    IN  [i \in 1..Len(r) |-> MatVec(R_n, r[i])]

\* A reshape that lays the n x m nested sequence out subunit-major (row i * n + k).
ReshapeSubunitMajor(a, n, m) ==
    [j \in 1..(n * m) |-> a[((j - 1) % n) + 1][((j - 1) \div n) + 1]]

\* reshape((n * m, ...)) of an n x m nested sequence: row k * m + i, start-major.
Reshape(a, n, m) ==
    [j \in 1..(n * m) |-> a[((j - 1) \div m) + 1][((j - 1) % m) + 1]]

compute_helical_lattice_positions(rise, twist, n_subunits_per_start, initial_displacement, n_start, degrees) ==
    LET theta == IF degrees THEN Deg2Rad(twist) ELSE twist
        subunit_positions_in_subhelix ==
            [i \in 1..n_subunits_per_start |->
                compute_ith_subunit_position_in_subhelix(
                    i - 1, theta, rise, initial_displacement,
                    n_subunits_per_start)]
        angles == symmetry_angles(n_start)
        per_start ==
            [k \in 1..n_start |->
                compute_helix_subunit_positions_per_start(
                    angles[k], subunit_positions_in_subhelix)]
    IN  Reshape(per_start, n_start, n_subunits_per_start)

compute_ith_subunit_rotation_in_subhelix(i, theta, R_0) ==
    MatMul(RotZ(i * theta), R_0)

compute_helix_subunit_rotations_per_start(symmetry_angle, R) ==
    LET R_n == RotZ(symmetry_angle)
    IN  [i \in 1..Len(R) |-> MatMul(R_n, R[i])]

compute_helical_lattice_rotations(twist, n_subunits_per_start, initial_rotation, n_start, degrees) ==
    LET theta == IF degrees THEN Deg2Rad(twist) ELSE twist
        subunit_rotations_in_subhelix ==
            [i \in 1..n_subunits_per_start |->
                compute_ith_subunit_rotation_in_subhelix(
                    i - 1, theta, initial_rotation)]
        angles == symmetry_angles(n_start)
        per_start ==
            [k \in 1..n_start |->
                compute_helix_subunit_rotations_per_start(
                    angles[k], subunit_rotations_in_subhelix)]
    IN  Reshape(per_start, n_start, n_subunits_per_start)

\* ------------------------------------------------------ assembly objects

\* EulerPose(): zero offset, identity rotation (the default of `pose or EulerPose()`).
EulerPose == [offset |-> <<0, 0, 0>>, rotation |-> Identity3]

\* Poses of the subunit template, in the center of mass frame of the assembly.
TemplatePoses ==
    { EulerPose, [offset |-> <<2, 1, 4>>, rotation |-> RotX1] }

\* The `pose` argument of the constructor: None (<<>>) or a pose.
PoseArguments ==
    { <<>>, <<[offset |-> <<3, 5, -2>>, rotation |-> RotY1]>> }

\* The `conformation` argument: None (<<>>) or a conformation.
ConformationArguments == { <<>>, <<"c1">> }

\* Subunit templates: a Specimen (no conformation field), an Ensemble, or
\* another SpecimenBase subclass.
Templates ==
    { [ kind |-> k, density |-> "density",
        conformation |-> IF k = "Ensemble" THEN <<"c0">> ELSE <<>>,
        pose |-> p ] :
        k \in {"Specimen", "Ensemble", "Other"}, p \in TemplatePoses }

StartNumbers == {0, 1, 2, 4}
Rises == {2, 6}
\* <<degrees, twist>>: a twist in degrees, or in radians (quarter turns).
Twists == { <<TRUE, 90>>, <<TRUE, 180>>, <<FALSE, 3>> }

MultipleMessage ==
    "The number of subunits must be a multiple of the helical start number."
ConformationMessage ==
    "conformation cannot be set if the subunit is not an Ensemble."
SubunitTypeMessage == "The subunit must be of type SpecimenLike."

\* Helix.__init__: the fields as assigned.
HelixInit(subunit, rise, twist, pose, conformation, n_start, n_subunits, degrees) ==
    [ subunit |-> subunit,
      pose |-> IF pose = <<>> THEN EulerPose ELSE pose[1],
      rise |-> rise,
      twist |-> twist,
      conformation |-> conformation,
      n_start |-> n_start,
      n_subunits |-> n_subunits,
      degrees |-> degrees ]

\* Helix.__check_init__ with the operands of % exchanged.
HelixCheckInitSwapped(self) ==
    IF self.n_subunits = 0
    THEN [status |-> "ZeroDivisionError", message |-> "integer modulo by zero"]
    ELSE IF self.n_start % self.n_subunits # 0
         THEN [status |-> "AttributeError", message |-> MultipleMessage]
         ELSE [status |-> "ok", message |-> ""]

\* Helix.__check_init__: what it raises, or "ok".  Python's % raises
\* ZeroDivisionError for a zero divisor.
HelixCheckInit(self) ==
    IF self.n_start = 0
    THEN [status |-> "ZeroDivisionError", message |-> "integer modulo by zero"]
    ELSE IF self.n_subunits % self.n_start # 0
         THEN [status |-> "AttributeError", message |-> MultipleMessage]
         ELSE [status |-> "ok", message |-> ""]

\* Assembly.__check_init__ without the test of the template's type.
AssemblyCheckInitNoTypeTest(self) ==
    [status |-> "ok", message |-> ""]

\* Assembly.__check_init__.
AssemblyCheckInit(self) ==
    IF self.conformation # <<>> /\ self.subunit.kind # "Ensemble"
    THEN [status |-> "AttributeError", message |-> ConformationMessage]
    ELSE [status |-> "ok", message |-> ""]

\* The __check_init__ methods run after __init__, in method resolution order:
\* Helix first, then its base class.  The first one that raises ends construction.
CheckInit(self) ==
    LET h == HelixCheckInit(self)
    IN  IF h.status # "ok" THEN h ELSE AssemblyCheckInit(self)

\* Pose.rotate: the pose's rotation applied to every point.
PoseRotate(pose, points) ==
    [n \in 1..Len(points) |-> MatVec(pose.rotation, points[n])]

\* Helix.positions, the body of the cached property.
HelixPositions(self) ==
    compute_helical_lattice_positions(
        self.rise, self.twist, self.n_subunits \div self.n_start,
        self.subunit.pose.offset, self.n_start, self.degrees)

\* Helix.rotations, the body of the cached property.
HelixRotations(self) ==
    compute_helical_lattice_rotations(
        self.twist, self.n_subunits \div self.n_start,
        self.subunit.pose.rotation, self.n_start, self.degrees)

\* Assembly.poses with the assembly offset left out.
AssemblyPosesNoOffset(self, positions, rotations) ==
    LET transformed_positions == PoseRotate(self.pose, positions)
        transformed_rotations ==
            [n \in 1..Len(rotations) |-> MatMul(rotations[n], self.pose.rotation)]
    IN  [ offset_x |-> [n \in 1..Len(positions) |-> transformed_positions[n][1]],
          offset_y |-> [n \in 1..Len(positions) |-> transformed_positions[n][2]],
          offset_z |-> [n \in 1..Len(positions) |-> transformed_positions[n][3]],
          matrix |-> transformed_rotations ]

\* Assembly.poses with the rotations composed on the other side.
AssemblyPosesLeftComposed(self, positions, rotations) ==
    LET rotated == PoseRotate(self.pose, positions)
        transformed_positions ==
            [n \in 1..Len(positions) |-> VecAdd(rotated[n], self.pose.offset)]
        transformed_rotations ==
            [n \in 1..Len(rotations) |-> MatMul(self.pose.rotation, rotations[n])]
    IN  [ offset_x |-> [n \in 1..Len(positions) |-> transformed_positions[n][1]],
          offset_y |-> [n \in 1..Len(positions) |-> transformed_positions[n][2]],
          offset_z |-> [n \in 1..Len(positions) |-> transformed_positions[n][3]],
          matrix |-> transformed_rotations ]

\* Assembly.poses, the body of the cached property, given the values that
\* self.positions and self.rotations return.
AssemblyPoses(self, positions, rotations) ==
    LET rotated == PoseRotate(self.pose, positions)
        transformed_positions ==
            [n \in 1..Len(positions) |-> VecAdd(rotated[n], self.pose.offset)]
        \* einsum("nij,jk->nik", rotations, pose.rotation.as_matrix())
        transformed_rotations ==
            [n \in 1..Len(rotations) |-> MatMul(rotations[n], self.pose.rotation)]
    IN  [ offset_x |-> [n \in 1..Len(positions) |-> transformed_positions[n][1]],
          offset_y |-> [n \in 1..Len(positions) |-> transformed_positions[n][2]],
          offset_z |-> [n \in 1..Len(positions) |-> transformed_positions[n][3]],
          matrix |-> transformed_rotations ]

\* Assembly.subunits for a template that passes one of the isinstance tests:
\* eqx.tree_at replaces the selected leaves and keeps the rest.
AssemblySubunits(self, poses) ==
    IF self.subunit.kind = "Specimen"
    THEN [self.subunit EXCEPT !.pose = poses]
    ELSE [self.subunit EXCEPT !.conformation = self.conformation, !.pose = poses]

\* ------------------------------------------------------ assembly actions

NoCache == [positions |-> <<>>, rotations |-> <<>>, poses |-> <<>>, subunits |-> <<>>]

\* functools.cached_property: the stored value when there is one, else the
\* value computed now.
PositionsValue(self, c) ==
    IF c.positions # <<>> THEN c.positions[1] ELSE HelixPositions(self)

RotationsValue(self, c) ==
    IF c.rotations # <<>> THEN c.rotations[1] ELSE HelixRotations(self)

PosesValue(self, c) ==
    IF c.poses # <<>> THEN c.poses[1]
    ELSE AssemblyPoses(self, PositionsValue(self, c), RotationsValue(self, c))

\* The instance __dict__ after a read of self.poses: computing poses reads
\* self.positions and self.rotations, which are stored as well.
CacheAfterPoses(self, c) ==
    IF c.poses # <<>> THEN c
    ELSE [c EXCEPT !.positions = <<PositionsValue(self, c)>>,
                   !.rotations = <<RotationsValue(self, c)>>,
                   !.poses = <<PosesValue(self, c)>>]

\* Helix(subunit, rise, twist, pose, conformation, n_start, n_subunits, degrees),
\* the first operation of a run.
NewHelix(subunit, rise, twist, pose, conformation, n_start, n_subunits, degrees) ==
    /\ ret.op = "none"
    /\ LET self == HelixInit(subunit, rise, twist, pose, conformation,
                             n_start, n_subunits, degrees)
           checked == CheckInit(self)
       IN  /\ helix' = IF checked.status = "ok" THEN <<self>> ELSE <<>>
           /\ ret' = [ op |-> "Helix", status |-> checked.status,
                       message |-> checked.message, value |-> self ]
    /\ cache' = NoCache
    /\ UNCHANGED <<image, fourier, dist, sampled, made, model, old>>

\* A read of helix.positions.
ReadPositions ==
    /\ helix # <<>>
    /\ LET v == PositionsValue(helix[1], cache)
       IN  /\ cache' = [cache EXCEPT !.positions = <<v>>]
           /\ ret' = [op |-> "positions", status |-> "ok", message |-> "", value |-> v]
    /\ UNCHANGED <<helix, image, fourier, dist, sampled, made, model, old>>

\* A read of helix.rotations.
ReadRotations ==
    /\ helix # <<>>
    /\ LET v == RotationsValue(helix[1], cache)
       IN  /\ cache' = [cache EXCEPT !.rotations = <<v>>]
           /\ ret' = [op |-> "rotations", status |-> "ok", message |-> "", value |-> v]
    /\ UNCHANGED <<helix, image, fourier, dist, sampled, made, model, old>>

\* A read of helix.poses.
ReadPoses ==
    /\ helix # <<>>
    /\ cache' = CacheAfterPoses(helix[1], cache)
    /\ ret' = [ op |-> "poses", status |-> "ok", message |-> "",
                value |-> PosesValue(helix[1], cache) ]
    /\ UNCHANGED <<helix, image, fourier, dist, sampled, made, model, old>>

\* A read of helix.subunits.
ReadSubunits ==
    /\ helix # <<>>
    /\ LET self == helix[1] IN
       IF cache.subunits # <<>>
       THEN /\ cache' = cache
            /\ ret' = [ op |-> "subunits", status |-> "ok", message |-> "",
                        value |-> cache.subunits[1] ]
       ELSE IF self.subunit.kind \in {"Specimen", "Ensemble"}
       THEN LET v == AssemblySubunits(self, PosesValue(self, cache))
            IN  /\ cache' = [CacheAfterPoses(self, cache) EXCEPT !.subunits = <<v>>]
                /\ ret' = [ op |-> "subunits", status |-> "ok", message |-> "",
                            value |-> v ]
       ELSE /\ cache' = cache
            /\ ret' = [ op |-> "subunits", status |-> "AttributeError",
                        message |-> SubunitTypeMessage, value |-> <<>> ]
    /\ UNCHANGED <<helix, image, fourier, dist, sampled, made, model, old>>

InitAssembly ==
    /\ helix = <<>>
    /\ cache = NoCache
    /\ ret = [op |-> "none", status |-> "ok", message |-> "", value |-> <<>>]

InitOthers ==
    /\ image = <<>>
    /\ fourier = <<>>
    /\ dist = <<>>
    /\ sampled = <<>>
    /\ made = <<>>
    /\ model = <<>>
    /\ old = <<>>

Init == InitAssembly /\ InitOthers

NextAssembly ==
    \/ \E subunit \in Templates, rise \in Rises, tw \in Twists,
          pose \in PoseArguments, conformation \in ConformationArguments,
          n_start \in StartNumbers, n_subunits \in 0..MaxSubunits :
            NewHelix(subunit, rise, tw[2], pose, conformation,
                     n_start, n_subunits, tw[1])
    \/ ReadPositions
    \/ ReadRotations
    \/ ReadPoses
    \/ ReadSubunits

SpecAssembly == Init /\ [][NextAssembly]_vars

\* --------------------------- cached properties under functional updates

\* The instance __dict__ of the assembly a functional update returns: a new
\* instance, made from the fields alone, has nothing stored.  This variant
\* hands the stored values of the instance updated on to the new one.
CacheCarriedOver(c) == c

\* The instance __dict__ of the assembly a functional update returns.
CacheAfterUpdate(c) == NoCache

\* The fields a functional update replaces (the array-valued fields of a
\* Helix; n_subunits, n_start and degrees are static) and their new values.
Updates ==
    << [field |-> "rise", value |-> 6],
       [field |-> "twist", value |-> 180],
       [field |-> "pose", value |-> [offset |-> <<3, 5, -2>>, rotation |-> RotY1]] >>

\* The assembly with one field replaced.
Updated(self, update) ==
    CASE update.field = "rise" -> [self EXCEPT !.rise = update.value]
      [] update.field = "twist" -> [self EXCEPT !.twist = update.value]
      [] update.field = "pose" -> [self EXCEPT !.pose = update.value]

\* A functional update of the helix: the program now holds the new assembly
\* and still holds the one it was made from, with what that one has stored.
UpdateHelix(update) ==
    /\ helix # <<>>
    /\ old = <<>>
    /\ helix' = <<Updated(helix[1], update)>>
    /\ cache' = CacheAfterUpdate(cache)
    /\ old' = <<[self |-> helix[1], cache |-> cache]>>
    /\ ret' = [ op |-> "update", status |-> "ok", message |-> "",
                value |-> Updated(helix[1], update) ]
    /\ UNCHANGED <<image, fourier, dist, sampled, made, model>>

\* A read of the property called name on the assembly self whose instance
\* __dict__ is c: the __dict__ afterwards and what the read returned or raised.
ReadProperty(self, c, name) ==
    CASE name = "positions" ->
            [ cache |-> [c EXCEPT !.positions = <<PositionsValue(self, c)>>],
              status |-> "ok", message |-> "", value |-> PositionsValue(self, c) ]
      [] name = "rotations" ->
            [ cache |-> [c EXCEPT !.rotations = <<RotationsValue(self, c)>>],
              status |-> "ok", message |-> "", value |-> RotationsValue(self, c) ]
      [] name = "poses" ->
            [ cache |-> CacheAfterPoses(self, c),
              status |-> "ok", message |-> "", value |-> PosesValue(self, c) ]
      [] name = "subunits" ->
            IF c.subunits # <<>>
            THEN [ cache |-> c, status |-> "ok", message |-> "",
                   value |-> c.subunits[1] ]
            ELSE IF self.subunit.kind \in {"Specimen", "Ensemble"}
            THEN LET v == AssemblySubunits(self, PosesValue(self, c))
                 IN  [ cache |-> [CacheAfterPoses(self, c) EXCEPT !.subunits = <<v>>],
                       status |-> "ok", message |-> "", value |-> v ]
            ELSE [ cache |-> c, status |-> "AttributeError",
                   message |-> SubunitTypeMessage, value |-> <<>> ]

PropertyNames == {"positions", "rotations", "poses", "subunits"}

\* The name under which a read of the assembly the update was made from is
\* recorded.
OldPropertyOp(name) ==
    CASE name = "positions" -> "old.positions"
      [] name = "rotations" -> "old.rotations"
      [] name = "poses" -> "old.poses"
      [] name = "subunits" -> "old.subunits"

\* A read of a property of the assembly the update was made from.
ReadOld(name) ==
    /\ old # <<>>
    /\ LET out == ReadProperty(old[1].self, old[1].cache, name)
       IN  /\ old' = <<[self |-> old[1].self, cache |-> out.cache]>>
           /\ ret' = [ op |-> OldPropertyOp(name), status |-> out.status,
                       message |-> out.message, value |-> out.value ]
    /\ UNCHANGED <<helix, cache, image, fourier, dist, sampled, made, model>>

NextCache ==
    \/ \E subunit \in {t \in Templates : t.pose # EulerPose}, n_start \in {1, 2} :
            NewHelix(subunit, 2, 90, <<>>, <<>>, n_start, 2, TRUE)
    \/ ReadPositions
    \/ ReadRotations
    \/ ReadPoses
    \/ ReadSubunits
    \/ \E u \in 1..Len(Updates) : UpdateHelix(Updates[u])
    \/ \E name \in PropertyNames : ReadOld(name)

SpecCache == Init /\ [][NextCache]_vars

\* ------------------------------------------ direct binning (imaging.py)

\* Coordinates of imaging.project are counted in halves: the integer h stands
\* for the coordinate h / 2, so that 0.5, 1.5 and 2.5 are inputs.

\* jnp.rint of h / 2: the nearest integer, a half going to the even neighbour.
Rint(h) ==
    IF h % 2 = 0 THEN h \div 2
    ELSE LET f == (h - 1) \div 2 IN IF f % 2 = 0 THEN f ELSE f + 1

\* The shift of line 37 left out.
ShiftToCornerNone(r, N) == r

\* rounded_coords + N // 2: the index with pixel 0 in the corner.
ShiftToCorner(r, N) == r + (N \div 2)

\* mode='clip' of ravel_multi_index, one axis.
Clip(v, N) == IF v < 0 THEN 0 ELSE IF v > N - 1 THEN N - 1 ELSE v

\* jnp.ravel_multi_index((y, z), (N2, N3), mode='clip')
RavelMultiIndex(y, z, N2, N3) == Clip(y, N2) * N3 + Clip(z, N3)

\* A binning in which the last point of a pixel overwrites the earlier ones.
BincountLastWriter(flat, weights, length) ==
    [k \in 1..length |->
        LET hits == {j \in 1..Len(flat) : flat[j] = k - 1}
        IN  IF hits = {} THEN 0
            ELSE weights[CHOOSE j \in hits : \A i \in hits : i <= j]]

\* jnp.bincount(flat, weights=weights, length=length)
Bincount(flat, weights, length) ==
    [k \in 1..length |->
        SumSeq([j \in 1..Len(flat) |-> IF flat[j] = k - 1 THEN weights[j] ELSE 0])]

\* project(volume, coords, shape)
Project(volume, coords, shape) ==
    LET N2 == shape[1]
        N3 == shape[2]
        y_coords == [j \in 1..Len(coords) |-> ShiftToCorner(Rint(coords[j][2]), N2)]
        z_coords == [j \in 1..Len(coords) |-> ShiftToCorner(Rint(coords[j][3]), N3)]
        flat_coords ==
            [j \in 1..Len(coords) |-> RavelMultiIndex(y_coords[j], z_coords[j], N2, N3)]
        counts == Bincount(flat_coords, volume, N2 * N3)
    IN  \* reshape((N2, N3))
        [a \in 1..N2 |-> [b \in 1..N3 |-> counts[(a - 1) * N3 + b]]]

\* The points a call is made with: a weight and coordinates in halves.
BinPoints ==
    { [w |-> 2, c |-> <<0, 0, 0>>],
      [w |-> -1, c |-> <<7, 0, 0>>],
      [w |-> 3, c |-> <<0, 1, -1>>],
      [w |-> 5, c |-> <<7, 3, 0>>],
      [w |-> 5, c |-> <<0, 3, 0>>],
      [w |-> 1, c |-> <<0, -5, 2>>],
      [w |-> 4, c |-> <<3, 2, -5>>],
      [w |-> 2, c |-> <<0, 5, 5>>] }

RECURSIVE SeqsUpTo(_, _)
\* The sequences over S of length at most n.
SeqsUpTo(S, n) ==
    IF n = 0 THEN {<<>>}
    ELSE LET shorter == SeqsUpTo(S, n - 1)
         IN  shorter \cup {Append(q, x) : q \in {r \in shorter : Len(r) = n - 1}, x \in S}

\* A call of project, the first operation of a run.
CallProject(points, shape) ==
    /\ image = <<>>
    /\ LET volume == [j \in 1..Len(points) |-> points[j].w]
           coords == [j \in 1..Len(points) |-> points[j].c]
       IN  image' = << [ volume |-> volume, coords |-> coords, shape |-> shape,
                         projection |-> Project(volume, coords, shape) ] >>
    /\ UNCHANGED <<helix, cache, ret, fourier, dist, sampled, made, model, old>>

NextProject ==
    \E points \in SeqsUpTo(BinPoints, MaxPoints),
       N2 \in 1..MaxShape, N3 \in 1..MaxShape :
        CallProject(points, <<N2, N3>>)

SpecProject == Init /\ [][NextProject]_vars

\* ---------------------------- NUFFT projection (_nufft_project.py)

\* Coordinates of project_with_nufft are integers.  A periodic coordinate
\* 2 * pi * x / M is kept as the fraction x / M of a turn, [num, den].  A
\* complex value is kept exactly, as a sum of phasors: the coefficient
\* sequence c of length L stands for the sum over r of
\* c[r + 1] * exp(-2 * pi * i * r / L); all zeros is 0.0 + 0.0j.

\* 2 * jnp.pi * x / M
Periodic(x, M) == [num |-> x, den |-> M]

\* 0.0 + 0.0j
ComplexZero(L) == [r \in 1..L |-> 0]

\* One output mode of the type-1 transform with iflag = -1:
\* the sum over j of c[j] * exp(-i * (k1 * p1[j] + k2 * p2[j])).
Nufft1Mode(c, p1, p2, k1, k2, L) ==
    LET turn(j) ==
            ( k1 * p1[j].num * (L \div p1[j].den)
              + k2 * p2[j].num * (L \div p2[j].den) ) % L
    IN  [r \in 1..L |->
            SumSeq([j \in 1..Len(c) |-> IF turn(j) = r - 1 THEN c[j] ELSE 0])]

\* jax_finufft.nufft1(shape, c, p1, p2, iflag=-1): an M1 x M2 array whose
\* index (a, b) holds the mode k1 = a - M1 // 2, k2 = b - M2 // 2.  The first
\* point argument p1 is transformed along the axis of length M1 and the
\* second, p2, along the axis of length M2.
Nufft1(shape, c, p1, p2) ==
    LET M1 == shape[1]
        M2 == shape[2]
    IN  [a \in 1..M1 |-> [b \in 1..M2 |->
            Nufft1Mode(c, p1, p2, (a - 1) - (M1 \div 2), (b - 1) - (M2 \div 2),
                       M1 * M2)]]

\* jnp.fft.fftshift in place of ifftshift: every axis rolled by +(M // 2).
FftShift(A, M1, M2) ==
    [a \in 1..M1 |-> [b \in 1..M2 |->
        A[(((a - 1) - (M1 \div 2)) % M1) + 1][(((b - 1) - (M2 \div 2)) % M2) + 1]]]

\* jnp.fft.ifftshift: every axis rolled by -(M // 2).
IfftShift(A, M1, M2) ==
    [a \in 1..M1 |-> [b \in 1..M2 |->
        A[(((a - 1) + (M1 \div 2)) % M1) + 1][(((b - 1) + (M2 \div 2)) % M2) + 1]]]

\* project_with_nufft(weights, coordinate_list, shape): the periodic
\* coordinates handed to nufft1 and the returned projection.
ProjectWithNufft(weights, coordinate_list, shape) ==
    LET M1 == shape[1]
        M2 == shape[2]
        n == Len(coordinate_list)
        \* coordinates_xy / image_size: column 0 by M1, column 1 by M2
        x == [j \in 1..n |-> Periodic(coordinate_list[j][1], M1)]
        y == [j \in 1..n |-> Periodic(coordinate_list[j][2], M2)]
        \* nufft1(shape, weights, y, x): the point arguments in axis order
        points == <<y, x>>
        transformed == Nufft1(shape, weights, points[1], points[2])
        shifted == IfftShift(transformed, M1, M2)
        half == [a \in 1..M1 |-> [b \in 1..((M2 \div 2) + 1) |-> shifted[a][b]]]
        zero == ComplexZero(M1 * M2)
        column_zeroed ==
            IF M2 % 2 = 0
            THEN [a \in 1..M1 |-> [b \in 1..((M2 \div 2) + 1) |->
                    IF b = (M2 \div 2) + 1 THEN zero ELSE half[a][b]]]
            ELSE half
        row_zeroed ==
            IF M1 % 2 = 0
            THEN [a \in 1..M1 |-> [b \in 1..((M2 \div 2) + 1) |->
                    IF a = (M1 \div 2) + 1 THEN zero ELSE column_zeroed[a][b]]]
            ELSE column_zeroed
    IN  [x |-> x, y |-> y, points |-> points, projection |-> row_zeroed]

\* The points a call is made with: a weight and (x, y) or (x, y, z).
NufftPoints ==
    { [w |-> 2, c |-> <<0, 0>>],
      [w |-> 1, c |-> <<1, 0, 5>>],
      [w |-> 3, c |-> <<0, 1, 2>>],
      [w |-> 1, c |-> <<1, 2>>],
      [w |-> 2, c |-> <<-1, 1, 0>>],
      [w |-> 5, c |-> <<2, -1, 1>>] }

\* A call of project_with_nufft, the first operation of a run.
CallProjectWithNufft(points, shape) ==
    /\ fourier = <<>>
    /\ LET weights == [j \in 1..Len(points) |-> points[j].w]
           coordinate_list == [j \in 1..Len(points) |-> points[j].c]
           out == ProjectWithNufft(weights, coordinate_list, shape)
       IN  fourier' = << [ weights |-> weights, coordinate_list |-> coordinate_list,
                           shape |-> shape, x |-> out.x, y |-> out.y,
                           points |-> out.points,
                           projection |-> out.projection ] >>
    /\ UNCHANGED <<helix, cache, ret, image, dist, sampled, made, model, old>>

NextNufft ==
    \E points \in SeqsUpTo(NufftPoints, MaxPoints),
       M1 \in 1..MaxShape, M2 \in 1..MaxShape :
        CallProjectWithNufft(points, <<M1, M2>>)

SpecNufft == Init /\ [][NextNufft]_vars

\* ------------- IndependentFourierGaussian (_gaussian_distributions.py)

\* A complex number is a pair <<re, im>> of integers; a rational is a pair
\* <<num, den>> in lowest terms with den > 0.

RECURSIVE Gcd(_, _)
Gcd(a, b) == IF b = 0 THEN a ELSE Gcd(b, a % b)

Rat(n, d) ==
    LET g == Gcd(IF n < 0 THEN 0 - n ELSE n, d) IN <<n \div g, d \div g>>

RatAdd(p, q) == Rat(p[1] * q[2] + q[1] * p[2], p[2] * q[2])

RECURSIVE RatSum(_)
RatSum(s) == IF s = <<>> THEN <<0, 1>> ELSE RatAdd(Head(s), RatSum(Tail(s)))

CSub(u, v) == <<u[1] - v[1], u[2] - v[2]>>
CMul(u, v) == <<u[1] * v[1] - u[2] * v[2], u[1] * v[2] + u[2] * v[1]>>
Conjugate(u) == <<u[1], 0 - u[2]>>

\* The row-major flattening of a two-dimensional array.
Ravel(array) ==
    LET rows == Len(array)
        cols == IF rows = 0 THEN 0 ELSE Len(array[1])
    IN  [k \in 1..(rows * cols) |-> array[((k - 1) \div cols) + 1][((k - 1) % cols) + 1]]

\* array.shape of a two-dimensional array.
ArrayShape(array) == <<Len(array), IF Len(array) = 0 THEN 0 ELSE Len(array[1])>>

\* The frequency at index i of an axis of M modes, zero frequency first.
FftFreq(i, M) == IF 2 * i < M THEN i ELSE i - M

\* ImageConfig's frequency grid over a (rows, cols) half-plane: an array of
\* shape (rows, cols, 2) holding the frequency vector of every mode.
FrequencyGrid(shape) ==
    [a \in 1..shape[1] |-> [b \in 1..shape[2] |-> <<FftFreq(a - 1, shape[1]), b - 1>>]]

\* freqs.shape of a frequency grid.
GridShape(grid) == <<Len(grid), IF Len(grid) = 0 THEN 0 ELSE Len(grid[1]), 2>>

\* pipeline.render(view_cropped=False, get_real=False): the uncropped
\* Fourier-space image of the pipeline, one complex value per padded mode.
Render(pipeline) ==
    [a \in 1..pipeline.padded_shape[1] |-> [b \in 1..pipeline.padded_shape[2] |->
        <<a + b, a - 2 * b>>]]

\* pipeline.crop_and_apply_operators(image, get_real=False): crop to the
\* cropped grid, then multiply by the filter and mask of the pipeline.
CropAndApplyOperators(pipeline, array) ==
    [a \in 1..pipeline.shape[1] |-> [b \in 1..pipeline.shape[2] |->
        <<pipeline.filter * array[a][b][1], pipeline.filter * array[a][b][2]>>]]

\* self.variance(freqs): the variance operator on a frequency grid.
Variance(operator, freqs) ==
    [a \in 1..Len(freqs) |-> [b \in 1..Len(freqs[a]) |->
        operator.constant
        + operator.slope * (freqs[a][b][1] * freqs[a][b][1]
                            + freqs[a][b][2] * freqs[a][b][2])]]

\* The shape test of line 90 with the last axis of the grid not dropped.
ShapeErrorWholeShape(observed_shape, padded_freqs_shape) ==
    observed_shape # padded_freqs_shape

\* observed.shape != padded_freqs.shape[:-1]
LogProbabilityShapeError(observed_shape, padded_freqs_shape) ==
    observed_shape # SubSeq(padded_freqs_shape, 1, Len(padded_freqs_shape) - 1)

\* One mode of the loss with the factor 2 left out.
ModeLossNoHalf(residual, variance) ==
    LET square == CMul(residual, Conjugate(residual))
    IN  <<Rat(square[1], variance), Rat(square[2], variance)>>

\* (residuals * jnp.conjugate(residuals)) / (2 * self.variance(freqs)), one
\* mode: a complex value with rational parts.
ModeLoss(residual, variance) ==
    LET square == CMul(residual, Conjugate(residual))
    IN  <<Rat(square[1], 2 * variance), Rat(square[2], 2 * variance)>>

\* IndependentFourierGaussian.log_probability(observed): the collaborator
\* calls made, and the value returned or the exception raised.
LogProbability(self, observed) ==
    LET pipeline == self.pipeline
        padded_freqs == FrequencyGrid(pipeline.padded_shape)
        freqs == FrequencyGrid(pipeline.shape)
    IN  IF LogProbabilityShapeError(ArrayShape(observed), GridShape(padded_freqs))
        THEN [status |-> "ValueError", calls |-> <<>>, value |-> <<>>]
        ELSE LET rendered == Render(pipeline)
                 difference ==
                    [a \in 1..Len(rendered) |-> [b \in 1..Len(rendered[a]) |->
                        CSub(rendered[a][b], observed[a][b])]]
                 residuals == Ravel(CropAndApplyOperators(pipeline, difference))
                 variances == Ravel(Variance(self.variance, freqs))
                 terms == [k \in 1..Len(residuals) |->
                              ModeLoss(residuals[k], variances[k])]
                 \* jnp.sum of the complex terms
                 loss == << RatSum([k \in 1..Len(terms) |-> terms[k][1]]),
                            RatSum([k \in 1..Len(terms) |-> terms[k][2]]) >>
             IN  [ status |-> "ok",
                   calls |-> <<"render", "crop_and_apply_operators", "variance">>,
                   \* loss.real / residuals.size
                   value |-> Rat(loss[1][1], loss[1][2] * Len(residuals)) ]

\* The half-plane shapes of the padded and cropped grids of a pipeline.
GridShapes == { <<rows, cols>> : rows \in 1..MaxGrid, cols \in 1..MaxGrid }

Pipelines ==
    { [padded_shape |-> p, shape |-> s, filter |-> f] :
        p \in GridShapes,
        s \in GridShapes,
        f \in {1, 3} }

\* The pipelines whose cropped grid fits in the padded grid.
CroppingPipelines ==
    { p \in Pipelines :
        p.shape[1] <= p.padded_shape[1] /\ p.shape[2] <= p.padded_shape[2] }

\* Variance operators: a constant, and a constant plus a multiple of |q|^2.
VarianceOperators == { [constant |-> 3, slope |-> 0], [constant |-> 1, slope |-> 2] }

\* Observed images of a shape: zero, the render of a pipeline padded to that
\* shape, that render with one mode changed, and a ramp.
ObservedImages(shape) ==
    LET rendered == Render([padded_shape |-> shape])
    IN  { [a \in 1..shape[1] |-> [b \in 1..shape[2] |-> <<0, 0>>]],
          rendered,
          [a \in 1..shape[1] |-> [b \in 1..shape[2] |->
              IF a = 1 /\ b = 1 THEN <<rendered[a][b][1] + 1, rendered[a][b][2] - 2>>
              ELSE rendered[a][b]]],
          [a \in 1..shape[1] |-> [b \in 1..shape[2] |-> <<a * b, a - b>>]] }

\* A call of log_probability on a distribution, the first operation of a run.
CallLogProbability(self, observed) ==
    /\ dist = <<>>
    /\ LET out == LogProbability(self, observed)
       IN  dist' = << [ self |-> self, observed |-> observed, op |-> "log_probability",
                        status |-> out.status, calls |-> out.calls,
                        value |-> out.value ] >>
    /\ UNCHANGED <<helix, cache, ret, image, fourier, sampled, made, model, old>>

NextDistribution ==
    \E pipeline \in CroppingPipelines, variance \in VarianceOperators,
       shape \in GridShapes :
        \E observed \in ObservedImages(shape) :
            CallLogProbability([pipeline |-> pipeline, variance |-> variance], observed)

SpecDistribution == Init /\ [][NextDistribution]_vars

\* ---------------------------------- IndependentFourierGaussian.sample

\* The PRNG keys given to sample.
Keys == {0, 1, 2}

\* jr.normal(key, shape): one real draw per mode, a function of the key, the
\* shape and the mode only.  A draw is an integer in -2..2.
Normal(key, shape) ==
    [a \in 1..shape[1] |-> [b \in 1..shape[2] |->
        ((2 * key + 3 * a + b + shape[1] * shape[2]) % 5) - 2]]

\* IndependentFourierGaussian.sample(key): the noise of line 72 is the
\* variance on the padded grid times the draw, added to the uncropped
\* render (a real number added to a complex one), then cropped and filtered.
Sample(self, key) ==
    LET pipeline == self.pipeline
        freqs == FrequencyGrid(pipeline.padded_shape)
        shape == SubSeq(GridShape(freqs), 1, 2)
        variance == Variance(self.variance, freqs)
        normal == Normal(key, shape)
        noise == [a \in 1..shape[1] |-> [b \in 1..shape[2] |->
                    variance[a][b] * normal[a][b]]]
        rendered == Render(pipeline)
        noisy == [a \in 1..shape[1] |-> [b \in 1..shape[2] |->
                    <<rendered[a][b][1] + noise[a][b], rendered[a][b][2]>>]]
    IN  CropAndApplyOperators(pipeline, noisy)

\* A call of sample: the first call of a run is on any distribution, a later
\* one is on the same distribution again.
CallSample(self, key) ==
    /\ dist = <<>> /\ made = <<>>
    /\ Len(sampled) < MaxCalls
    /\ sampled # <<>> => self = sampled[1].self
    /\ sampled' = Append(sampled, [self |-> self, key |-> key,
                                   value |-> Sample(self, key)])
    /\ UNCHANGED <<helix, cache, ret, image, fourier, dist, made, model, old>>

NextSample ==
    \E pipeline \in CroppingPipelines, variance \in VarianceOperators, key \in Keys :
        CallSample([pipeline |-> pipeline, variance |-> variance], key)

SpecSample == Init /\ [][NextSample]_vars

\* -------------------------------- IndependentFourierGaussian.__init__

\* A Fourier operator is a tree: Constant(value), a ramp value * |q|^2, a
\* contrast transfer function value - |q|^2, the sum of two operators, or the
\* product of two operators.
Constant(value) == [op |-> "Constant", value |-> value]
Ramp(value) == [op |-> "Ramp", value |-> value]
Ctf(value) == [op |-> "CTF", value |-> value]

\* operator1 + operator2 and operator1 * operator2 on operators.
OperatorSum(operator1, operator2) ==
    [op |-> "Sum", operator1 |-> operator1, operator2 |-> operator2]
OperatorProduct(operator1, operator2) ==
    [op |-> "Product", operator1 |-> operator1, operator2 |-> operator2]

RECURSIVE EvaluateOperator(_, _)
\* operator(freqs) at the one frequency vector q.
EvaluateOperator(operator, q) ==
    LET q2 == q[1] * q[1] + q[2] * q[2]
    IN  CASE operator.op = "Constant" -> operator.value
          [] operator.op = "Ramp" -> operator.value * q2
          [] operator.op = "CTF" -> operator.value - q2
          [] operator.op = "Sum" ->
                EvaluateOperator(operator.operator1, q)
                + EvaluateOperator(operator.operator2, q)
          [] operator.op = "Product" ->
                EvaluateOperator(operator.operator1, q)
                * EvaluateOperator(operator.operator2, q)

\* eqx.tree_equal: the same tree structure with the same leaves.
TreeEqual(x, y) == x = y

\* The error test of line 62: the synthesized variance is Constant(0.0).
NoVarianceSource(pipeline, variance) == TreeEqual(variance, Constant(0))

\* ctf * ctf * pipeline.solvent.variance
IceVariance(ctf, variance) == OperatorProduct(OperatorProduct(ctf, ctf), variance)

\* IndependentFourierGaussian(pipeline, variance): variance is <<>> for None
\* and <<operator>> otherwise.  The result is the exception raised or the
\* object, with the attributes of the pipeline that were read.
IndependentFourierGaussianInit(pipeline, variance) ==
    IF variance # <<>>
    THEN [ status |-> "ok", reads |-> <<>>,
           self |-> <<[pipeline |-> pipeline, variance |-> variance[1]]>> ]
    ELSE LET gaussian_detector == pipeline.detector.kind = "GaussianDetector"
             gaussian_ice == pipeline.solvent.kind = "GaussianIce"
             from_detector == IF gaussian_detector THEN pipeline.detector.variance[1]
                              ELSE Constant(0)
             synthesized ==
                IF gaussian_ice
                THEN OperatorSum(from_detector,
                                 IceVariance(pipeline.ctf, pipeline.solvent.variance[1]))
                ELSE from_detector
             reads == <<"instrument.detector">>
                      \o (IF gaussian_detector THEN <<"instrument.detector.variance">>
                          ELSE <<>>)
                      \o <<"solvent">>
                      \o (IF gaussian_ice
                          THEN <<"instrument.optics.ctf", "solvent.variance">>
                          ELSE <<>>)
         IN  IF NoVarianceSource(pipeline, synthesized)
             THEN [status |-> "AttributeError", reads |-> reads, self |-> <<>>]
             ELSE [ status |-> "ok", reads |-> reads,
                    self |-> <<[pipeline |-> pipeline, variance |-> synthesized]>> ]

\* The detectors, solvents and contrast transfer functions of a pipeline, and
\* the variance arguments of a construction.
Detectors ==
    { [kind |-> "NullDetector", variance |-> <<>>] }
    \cup { [kind |-> "GaussianDetector", variance |-> <<v>>] :
             v \in {Constant(0), Constant(2), Ramp(1)} }

Solvents ==
    { [kind |-> "NullIce", variance |-> <<>>] }
    \cup { [kind |-> "GaussianIce", variance |-> <<v>>] :
             v \in {Constant(0), Constant(1), Ramp(3)} }

Ctfs == { Ctf(1), Ctf(2) }

VarianceArguments == { <<>>, <<Constant(0)>>, <<Constant(5)>>, <<Ramp(2)>> }

\* A construction of a distribution, the first operation of a run.
NewDistribution(pipeline, variance) ==
    /\ made = <<>> /\ dist = <<>> /\ sampled = <<>>
    /\ LET out == IndependentFourierGaussianInit(pipeline, variance)
       IN  made' = << [ pipeline |-> pipeline, variance |-> variance,
                        status |-> out.status, reads |-> out.reads,
                        self |-> out.self ] >>
    /\ UNCHANGED <<helix, cache, ret, image, fourier, dist, sampled, model, old>>

NextConstruction ==
    \E detector \in Detectors, solvent \in Solvents, ctf \in Ctfs,
       variance \in VarianceArguments :
        NewDistribution([detector |-> detector, solvent |-> solvent, ctf |-> ctf],
                        variance)

SpecConstruction == Init /\ [][NextConstruction]_vars

\* ------------------------------------------ update (tests/test_update.py)

\* The keyword arguments of test_update's params.
ParameterNames ==
    { "offset_x", "view_phi", "voltage", "N", "alpha", "xi", "pixel_size",
      "resolution" }

\* The values a keyword argument is given.
ParameterValues == {1, 2}

\* The noisy_model fixture: a model with its state and its specimen.
NoisyModel ==
    [ state |-> [ pose |-> [offset_x |-> 10, view_phi |-> 11],
                  optics |-> [voltage |-> 12],
                  exposure |-> [N |-> 13],
                  detector |-> [variance |-> [alpha |-> 14], pixel_size |-> 16],
                  ice |-> [variance |-> [xi |-> 15]] ],
      specimen |-> [resolution |-> 17] ]

\* The value of the field called name after update(params): the keyword
\* argument of that name when there is one, else the current value.
Replace(params, name, current) ==
    IF name \in DOMAIN params THEN params[name] ELSE current

PoseUpdate(pose, params) ==
    [ offset_x |-> Replace(params, "offset_x", pose.offset_x),
      view_phi |-> Replace(params, "view_phi", pose.view_phi) ]

OpticsUpdate(optics, params) ==
    [voltage |-> Replace(params, "voltage", optics.voltage)]

ExposureUpdate(exposure, params) ==
    [N |-> Replace(params, "N", exposure.N)]

\* A detector update that does not descend into the variance operator.
DetectorUpdateShallow(detector, params) ==
    [ variance |-> detector.variance,
      pixel_size |-> Replace(params, "pixel_size", detector.pixel_size) ]

DetectorUpdate(detector, params) ==
    [ variance |-> [alpha |-> Replace(params, "alpha", detector.variance.alpha)],
      pixel_size |-> Replace(params, "pixel_size", detector.pixel_size) ]

IceUpdate(ice, params) ==
    [variance |-> [xi |-> Replace(params, "xi", ice.variance.xi)]]

\* state.update(params): every field is updated with the same params.
StateUpdate(state, params) ==
    [ pose |-> PoseUpdate(state.pose, params),
      optics |-> OpticsUpdate(state.optics, params),
      exposure |-> ExposureUpdate(state.exposure, params),
      detector |-> DetectorUpdate(state.detector, params),
      ice |-> IceUpdate(state.ice, params) ]

\* specimen.update(params)
SpecimenUpdate(specimen, params) ==
    [resolution |-> Replace(params, "resolution", specimen.resolution)]

\* model.update(params)
ModelUpdate(m, params) ==
    [ state |-> StateUpdate(m.state, params),
      specimen |-> SpecimenUpdate(m.specimen, params) ]

\* test_update with the keyword arguments params: the three update calls of
\* lines 34-36 on the fixture, the first operation of a run.
TestUpdate(params) ==
    /\ model = <<>>
    /\ model' = << [ noisy_model |-> NoisyModel, params |-> params,
                     state |-> StateUpdate(NoisyModel.state, params),
                     specimen |-> SpecimenUpdate(NoisyModel.specimen, params),
                     model |-> ModelUpdate(NoisyModel, params) ] >>
    /\ UNCHANGED <<helix, cache, ret, image, fourier, dist, sampled, made, old>>

NextUpdate ==
    \E names \in SUBSET ParameterNames :
        \E params \in [names -> ParameterValues] : TestUpdate(params)

SpecUpdate == Init /\ [][NextUpdate]_vars

\* ------------------------------------------------- claims on the assembly

\* The sum of the z-coordinates of a sequence of positions.
SumZ(positions) == SumSeq([n \in 1..Len(positions) |-> positions[n][3]])

\* C1: constructing a Helix whose n_subunits is not a multiple of n_start
\* raises the configuration error of Helix.__check_init__ and yields no
\* object; when the remainder is zero that error is not raised, and the
\* Helix is constructed whenever the base class accepts the conformation.
C1_HelixCheck ==
    (ret.op = "Helix" /\ ret.value.n_start # 0) =>
        /\ (ret.value.n_subunits % ret.value.n_start # 0) =>
              /\ ret.status = "AttributeError"
              /\ ret.message = MultipleMessage
              /\ helix = <<>>
        /\ (ret.value.n_subunits % ret.value.n_start = 0) =>
              /\ ret.message # MultipleMessage
              /\ (ret.value.conformation = <<>> \/ ret.value.subunit.kind = "Ensemble")
                    => (ret.status = "ok" /\ helix = <<ret.value>>)

\* C1 witness: Helix(n_subunits = 3, n_start = 2) was rejected.
C1_Witness ==
    /\ ret.op = "Helix"
    /\ ret.value.n_subunits = 3 /\ ret.value.n_start = 2
    /\ ret.status = "AttributeError"

\* C2 as stated: the z-coordinates of the lattice positions sum to 0 (their
\* mean is 0) whatever the initial displacement.
C2_MeanZZero ==
    cache.positions # <<>> => SumZ(cache.positions[1]) = 0

\* C2 as amended: the z-coordinates of the lattice positions sum to the number
\* of subunits times the z-coordinate of the initial displacement (their mean
\* is that z-coordinate), so the mean is 0 when that z-coordinate is 0.
C2_MeanZIsInitialZ ==
    cache.positions # <<>> =>
        LET positions == cache.positions[1]
            z_0 == helix[1].subunit.pose.offset[3]
        IN  /\ Len(positions) = helix[1].n_subunits
            /\ SumZ(positions) = Len(positions) * z_0
            /\ (z_0 = 0 => SumZ(positions) = 0)

\* C2 witness: positions of a two-start helix of four subunits whose template
\* is displaced along z.
C2_Witness ==
    /\ cache.positions # <<>>
    /\ helix[1].n_subunits = 4 /\ helix[1].n_start = 2
    /\ helix[1].subunit.pose.offset[3] # 0

\* The MatrixPose holding exactly one pose.
SinglePose(pose) ==
    [ offset_x |-> <<pose.offset[1]>>, offset_y |-> <<pose.offset[2]>>,
      offset_z |-> <<pose.offset[3]>>, matrix |-> <<pose.rotation>> ]

\* C3 as stated: the one realized pose of a single-start, one-subunit
\* assembly is the assembly's global pose, whatever the template's pose.
C3_SinglePoseIsGlobalPose ==
    (cache.poses # <<>> /\ helix[1].n_start = 1 /\ helix[1].n_subunits = 1) =>
        cache.poses[1] = SinglePose(helix[1].pose)

\* C3 as amended: the one realized pose of a single-start, one-subunit
\* assembly is the template's pose carried by the assembly's pose (position
\* R_a r_0 + t_a, rotation R_0 R_a); it is the assembly's global pose when the
\* template's pose is the identity, and the realized subunit carries it.
C3_SinglePoseIsComposedPose ==
    (cache.poses # <<>> /\ helix[1].n_start = 1 /\ helix[1].n_subunits = 1) =>
        LET a == helix[1].pose
            t == helix[1].subunit.pose
            composed ==
                [ offset |-> VecAdd(MatVec(a.rotation, t.offset), a.offset),
                  rotation |-> MatMul(t.rotation, a.rotation) ]
        IN  /\ cache.poses[1] = SinglePose(composed)
            /\ (t = EulerPose => cache.poses[1] = SinglePose(a))
            /\ (cache.subunits # <<>> => cache.subunits[1].pose = SinglePose(composed))

\* C3 witness: the poses of a single-start, one-subunit assembly with an
\* identity template pose and a non-trivial assembly pose.
C3_Witness ==
    /\ cache.poses # <<>>
    /\ helix[1].n_start = 1 /\ helix[1].n_subunits = 1
    /\ helix[1].subunit.pose = EulerPose
    /\ helix[1].pose # EulerPose

\* C4: poses holds one entry per lattice entry, in the same order: entry n has
\* the position R p_n + t and the rotation R_n R, with R and t the rotation
\* and offset of the assembly's pose.
C4_PosesTransformLattice ==
    cache.poses # <<>> =>
        LET poses == cache.poses[1]
            p == cache.positions[1]
            Rn == cache.rotations[1]
            R == helix[1].pose.rotation
            t == helix[1].pose.offset
            N == helix[1].n_subunits
            Row(i, v) == R[i][1] * v[1] + R[i][2] * v[2] + R[i][3] * v[3]
        IN  /\ Len(p) = N /\ Len(Rn) = N
            /\ Len(poses.offset_x) = N /\ Len(poses.offset_y) = N
            /\ Len(poses.offset_z) = N /\ Len(poses.matrix) = N
            /\ \A n \in 1..N :
                /\ poses.offset_x[n] = Row(1, p[n]) + t[1]
                /\ poses.offset_y[n] = Row(2, p[n]) + t[2]
                /\ poses.offset_z[n] = Row(3, p[n]) + t[3]
                /\ \A i, k \in 1..3 :
                     poses.matrix[n][i][k] =
                        Rn[n][i][1] * R[1][k] + Rn[n][i][2] * R[2][k]
                        + Rn[n][i][3] * R[3][k]

\* C4 witness: the poses of four subunits whose template rotation does not
\* commute with the assembly rotation.
C4_Witness ==
    /\ cache.poses # <<>>
    /\ helix[1].n_subunits = 4
    /\ helix[1].pose.rotation = RotY1
    /\ helix[1].subunit.pose.rotation = RotX1

\* C5: a conformation with a template that is not an Ensemble is rejected at
\* construction; subunits returns a Specimen template with only its pose
\* replaced by the realized poses, an Ensemble template with only its
\* conformation and pose replaced, and raises for any other template; the
\* density is never changed.
C5_ConformationAndSubunits ==
    /\ (ret.op = "Helix" /\ ret.value.conformation # <<>>
            /\ ret.value.subunit.kind # "Ensemble") =>
          /\ ret.status # "ok"
          /\ helix = <<>>
          /\ ret.message \in {ConformationMessage, MultipleMessage,
                              "integer modulo by zero"}
          /\ (ret.value.n_start # 0
                /\ ret.value.n_subunits % ret.value.n_start = 0)
                => (ret.status = "AttributeError"
                        /\ ret.message = ConformationMessage)
    /\ ret.op = "subunits" =>
          LET template == helix[1].subunit IN
          /\ template.kind = "Specimen" =>
                /\ ret.status = "ok"
                /\ ret.value.kind = "Specimen"
                /\ ret.value.density = template.density
                /\ ret.value.conformation = template.conformation
                /\ ret.value.pose = cache.poses[1]
          /\ template.kind = "Ensemble" =>
                /\ ret.status = "ok"
                /\ ret.value.kind = "Ensemble"
                /\ ret.value.density = template.density
                /\ ret.value.conformation = helix[1].conformation
                /\ ret.value.pose = cache.poses[1]
          /\ template.kind \notin {"Specimen", "Ensemble"} =>
                /\ ret.status = "AttributeError"
                /\ cache.subunits = <<>>

\* C5 witness: a conformation given with a Specimen template was rejected by
\* Assembly.__check_init__.
C5_Witness ==
    /\ ret.op = "Helix"
    /\ ret.value.conformation # <<>>
    /\ ret.value.subunit.kind = "Specimen"
    /\ ret.message = ConformationMessage

\* -------------------------------------------------- claims on project

\* The integer nearest to h / 2, a half going to the even neighbour, stated
\* by its distance to h / 2.
NearestEven(h) ==
    CHOOSE r \in (h \div 2 - 1)..(h \div 2 + 1) :
        /\ 2 * r - h \in {-1, 0, 1}
        /\ (2 * r - h # 0 => r % 2 = 0)

\* The pixel index of a rounded coordinate r on an axis of N pixels: shifted
\* by N // 2 and moved to the nearest valid pixel.
PixelOf(r, N) ==
    LET i == r + (N \div 2)
    IN  CHOOSE v \in 0..(N - 1) : \A u \in 0..(N - 1) :
            (IF v > i THEN v - i ELSE i - v) <= (IF u > i THEN u - i ELSE i - u)

RECURSIVE SumOver(_, _)
\* The sum of f over the finite set S.
SumOver(f, S) ==
    IF S = {} THEN 0
    ELSE LET j == CHOOSE x \in S : TRUE IN f[j] + SumOver(f, S \ {j})

\* C6: the projection of one point at the image center (0, 0), at any depth
\* and for any shape (N2, N3), has the point's weight at pixel
\* (N2 // 2, N3 // 2) and 0 everywhere else.
C6_CenterPoint ==
    (image # <<>> /\ Len(image[1].coords) = 1
        /\ image[1].coords[1][2] = 0 /\ image[1].coords[1][3] = 0) =>
        LET N2 == image[1].shape[1]
            N3 == image[1].shape[2]
        IN  /\ Len(image[1].projection) = N2
            /\ \A a \in 1..N2 :
                /\ Len(image[1].projection[a]) = N3
                /\ \A b \in 1..N3 :
                    image[1].projection[a][b] =
                        IF a - 1 = N2 \div 2 /\ b - 1 = N3 \div 2
                        THEN image[1].volume[1] ELSE 0

\* C6 witness: one point at the center, at a non-zero depth, projected on a
\* 3 x 2 image.
C6_Witness ==
    /\ image # <<>>
    /\ Len(image[1].coords) = 1
    /\ image[1].coords[1] = <<7, 0, 0>>
    /\ image[1].shape = <<3, 2>>

\* C7: every pixel is the sum of the weights of the points whose rounded,
\* shifted and clipped index is that pixel, so the image sums to the total
\* input weight, and the depth coordinate has no effect.
C7_PixelsSumWeights ==
    image # <<>> =>
        LET call == image[1]
            N2 == call.shape[1]
            N3 == call.shape[2]
            n == Len(call.coords)
            OnPixel(a, b) ==
                { j \in 1..n :
                    /\ PixelOf(NearestEven(call.coords[j][2]), N2) = a - 1
                    /\ PixelOf(NearestEven(call.coords[j][3]), N3) = b - 1 }
            rows == [a \in 1..N2 |-> SumSeq(call.projection[a])]
            flattened ==
                [j \in 1..n |-> <<0, call.coords[j][2], call.coords[j][3]>>]
        IN  /\ \A a \in 1..N2, b \in 1..N3 :
                call.projection[a][b] = SumOver(call.volume, OnPixel(a, b))
            /\ SumSeq(rows) = SumSeq(call.volume)
            /\ call.projection = Project(call.volume, flattened, call.shape)

\* C7 witness: two points at different depths, both outside a 2 x 2 image,
\* are clipped to the same pixel, which holds the sum of their weights.
C7_Witness ==
    /\ image # <<>>
    /\ image[1].coords = << <<0, 5, 5>>, <<7, 3, 0>> >>
    /\ image[1].shape = <<2, 2>>
    /\ image[1].projection[2][2] = 7

\* ------------------------------------------ claims on project_with_nufft

\* The frequency held at index i of an axis of M modes whose zero frequency
\* is at index 0: 0, 1, ..., then the negative frequencies up to -1.
FrequencyAt(i, M) == IF 2 * i < M THEN i ELSE i - M

\* C8: the output has shape (M1, M2 // 2 + 1); index (0, 0) holds the zero
\* frequency, the sum of the weights; for even M2 the last column is zero
\* and for even M1 row M1 // 2 is zero; every other entry, the last column
\* of an odd M2 and row M1 // 2 of an odd M1 included, is the transform at
\* the frequency of its index.
C8_NufftShapeAndNyquist ==
    fourier # <<>> =>
        LET call == fourier[1]
            M1 == call.shape[1]
            M2 == call.shape[2]
            L == M1 * M2
            out == call.projection
            n == Len(call.weights)
            Turn(j, k1, k2) ==
                ( k1 * call.y[j].num * (L \div call.y[j].den)
                  + k2 * call.x[j].num * (L \div call.x[j].den) ) % L
            Transform(k1, k2) ==
                [r \in 1..L |->
                    SumOver(call.weights, {j \in 1..n : Turn(j, k1, k2) = r - 1})]
            Zeroed(a, b) ==
                \/ M2 % 2 = 0 /\ b = M2 \div 2
                \/ M1 % 2 = 0 /\ a = M1 \div 2
        IN  /\ Len(out) = M1
            /\ \A a \in 1..M1 : Len(out[a]) = (M2 \div 2) + 1
            /\ out[1][1] = [r \in 1..L |-> IF r = 1 THEN SumSeq(call.weights) ELSE 0]
            /\ \A a \in 0..(M1 - 1), b \in 0..(M2 \div 2) :
                out[a + 1][b + 1] =
                    IF Zeroed(a, b) THEN [r \in 1..L |-> 0]
                    ELSE Transform(FrequencyAt(a, M1), b)

\* C8 witness: a 3 x 2 request with two points: the last column is zero and
\* row 1 = 3 // 2 is not.
C8_Witness ==
    /\ fourier # <<>>
    /\ fourier[1].shape = <<3, 2>>
    /\ Len(fourier[1].weights) = 2
    /\ fourier[1].projection[2][2] = ComplexZero(6)
    /\ fourier[1].projection[2][1] # ComplexZero(6)

\* ------------------------------------------- claims on log_probability

RECURSIVE LcmOver(_, _)
\* The least common multiple of the positive values of f over the finite set S.
LcmOver(f, S) ==
    IF S = {} THEN 1
    ELSE LET j == CHOOSE x \in S : TRUE
             rest == LcmOver(f, S \ {j})
         IN  (f[j] \div Gcd(f[j], rest)) * rest

\* C9: log_probability raises the shape error exactly when observed.shape
\* differs from the padded frequency grid's shape without its last axis, and
\* then it has neither rendered nor returned anything; with equal shapes
\* there is no shape error.
C9_ShapeError ==
    dist # <<>> =>
        LET call == dist[1]
            padded == call.self.pipeline.padded_shape
            same == /\ Len(call.observed) = padded[1]
                    /\ \A a \in 1..Len(call.observed) :
                          Len(call.observed[a]) = padded[2]
        IN  /\ ~same => (call.status = "ValueError" /\ call.calls = <<>>
                            /\ call.value = <<>>)
            /\ same => (call.status = "ok" /\ Len(call.value) = 2)

\* C9 witness: a 1 x 2 image given to a pipeline padded to 2 x 2 was refused.
C9_Witness ==
    /\ dist # <<>>
    /\ dist[1].self.pipeline.padded_shape = <<2, 2>>
    /\ ArrayShape(dist[1].observed) = <<1, 2>>
    /\ dist[1].status = "ValueError"

\* C10: for a shape-valid observed image the value is the sum over the
\* cropped modes of |residual|^2 / (2 variance), divided by the number of
\* cropped modes, with residual the crop/filter chain applied to render
\* minus observed and variance taken on the cropped grid; it is never
\* negative and it is 0 when observed equals the render.
C10_LogProbabilityValue ==
    (dist # <<>> /\ dist[1].status = "ok") =>
        LET call == dist[1]
            pipeline == call.self.pipeline
            rendered == Render(pipeline)
            S1 == pipeline.shape[1]
            S2 == pipeline.shape[2]
            modes == 1..(S1 * S2)
            row(k) == ((k - 1) \div S2) + 1
            col(k) == ((k - 1) % S2) + 1
            residual ==
                [k \in modes |->
                    CropAndApplyOperators(pipeline,
                        [a \in 1..Len(rendered) |-> [b \in 1..Len(rendered[a]) |->
                            CSub(rendered[a][b], call.observed[a][b])]])[row(k)][col(k)]]
            variance ==
                [k \in modes |->
                    Variance(call.self.variance, FrequencyGrid(pipeline.shape))[row(k)][col(k)]]
            denominators == [k \in modes |-> 2 * variance[k]]
            common == LcmOver(denominators, modes)
            scaled ==
                [k \in modes |->
                    (residual[k][1] * residual[k][1] + residual[k][2] * residual[k][2])
                    * (common \div denominators[k])]
        IN  /\ \A k \in modes : variance[k] > 0
            /\ call.value[2] > 0
            /\ call.value[1] * common * (S1 * S2) = call.value[2] * SumOver(scaled, modes)
            /\ call.value[1] >= 0
            /\ (call.observed = rendered => call.value = <<0, 1>>)
            /\ call.calls = <<"render", "crop_and_apply_operators", "variance">>

\* C10 witness: a 2 x 2 image that differs from the render, cropped to 1 x 2,
\* under a frequency-dependent variance, has a positive value.
C10_Witness ==
    /\ dist # <<>>
    /\ dist[1].status = "ok"
    /\ dist[1].self.pipeline.padded_shape = <<2, 2>>
    /\ dist[1].self.pipeline.shape = <<1, 2>>
    /\ dist[1].self.variance.slope # 0
    /\ dist[1].observed # Render(dist[1].self.pipeline)
    /\ dist[1].value[1] > 0

\* ------------------------------------------------------ claims on sample

\* C11: every mode of a sampled image is the filtered render of that mode
\* plus filtered noise on the real part, where the noise is the draw of the
\* key at that mode scaled by the square root of the variance at that mode of
\* the padded grid (noise^2 = variance * draw^2, with the sign of the draw);
\* and two calls with the same key on one distribution return the same image.
C11_SampleScalesBySqrtVariance ==
    \A n \in 1..Len(sampled) :
        LET call == sampled[n]
            pipeline == call.self.pipeline
            padded == pipeline.padded_shape
            rendered == Render(pipeline)
            variance == Variance(call.self.variance, FrequencyGrid(padded))
            normal == Normal(call.key, padded)
        IN  /\ ArrayShape(call.value) = pipeline.shape
            /\ \A a \in 1..pipeline.shape[1], b \in 1..pipeline.shape[2] :
                  LET noise == call.value[a][b][1] - pipeline.filter * rendered[a][b][1]
                  IN  /\ noise * noise
                            = pipeline.filter * pipeline.filter
                              * variance[a][b] * normal[a][b] * normal[a][b]
                      /\ noise * normal[a][b] >= 0
                      /\ call.value[a][b][2] = pipeline.filter * rendered[a][b][2]
            /\ \A k \in 1..Len(sampled) :
                  sampled[k].key = call.key => sampled[k].value = call.value

\* ------------------------------------------------ claims on construction

\* The frequency vectors at which two variance operators are compared.
ProbeFrequencies == { <<0, 0>>, <<1, 0>>, <<-1, 1>>, <<0, 2>> }

\* C12: a construction with an explicit variance stores it unchanged and reads
\* nothing of the pipeline; a construction without one raises the
\* configuration error exactly when the detector is not a GaussianDetector
\* and the solvent is not a GaussianIce, and otherwise stores a variance that
\* is, at every frequency, the detector's variance (if Gaussian) plus the
\* squared contrast transfer function times the ice variance (if Gaussian).
C12_VarianceSynthesis ==
    made # <<>> =>
        LET call == made[1]
            pipeline == call.pipeline
            gaussian_detector == pipeline.detector.kind = "GaussianDetector"
            gaussian_ice == pipeline.solvent.kind = "GaussianIce"
            expected(q) ==
                (IF gaussian_detector
                 THEN EvaluateOperator(pipeline.detector.variance[1], q) ELSE 0)
                + (IF gaussian_ice
                   THEN EvaluateOperator(pipeline.ctf, q) * EvaluateOperator(pipeline.ctf, q)
                        * EvaluateOperator(pipeline.solvent.variance[1], q)
                   ELSE 0)
        IN  IF call.variance # <<>>
            THEN /\ call.status = "ok"
                 /\ call.self = <<[pipeline |-> pipeline, variance |-> call.variance[1]]>>
                 /\ call.reads = <<>>
            ELSE /\ call.status = "AttributeError" <=> (~gaussian_detector /\ ~gaussian_ice)
                 /\ call.status \in {"ok", "AttributeError"}
                 /\ call.status = "AttributeError" => call.self = <<>>
                 /\ call.status = "ok" =>
                        /\ call.self[1].pipeline = pipeline
                        /\ \A q \in ProbeFrequencies :
                              EvaluateOperator(call.self[1].variance, q) = expected(q)

\* ------------------------------------------------------ claims on update

C14_LatticeRows ==
    helix # <<>> =>
        LET self == helix[1]
            n == self.n_start
            m == self.n_subunits \div n
            r == self.rise
            theta == IF self.degrees THEN self.twist \div 90 ELSE self.twist
            r0 == self.subunit.pose.offset
            R0 == self.subunit.pose.rotation
            Rn(k) == RotZ((4 * k) \div n)
            position(k, i) ==
                MatVec(Rn(k), VecAdd(MatVec(RotZ(i * theta), r0),
                                     <<0, 0, i * r - (r * (m - 1)) \div 2>>))
            rotation(k, i) == MatMul(Rn(k), MatMul(RotZ(i * theta), R0))
        IN  /\ cache.positions # <<>> =>
                /\ Len(cache.positions[1]) = n * m
                /\ \A k \in 0..(n - 1), i \in 0..(m - 1) :
                      cache.positions[1][k * m + i + 1] = position(k, i)
            /\ cache.rotations # <<>> =>
                /\ Len(cache.rotations[1]) = n * m
                /\ \A k \in 0..(n - 1), i \in 0..(m - 1) :
                      cache.rotations[1][k * m + i + 1] = rotation(k, i)
                /\ \A k \in 0..(n - 1) :
                      m > 0 => cache.rotations[1][k * m + 1] = MatMul(Rn(k), R0)

\* C14 witness: the positions and the rotations of a two-start helix of four
\* subunits with a quarter-turn twist in degrees have been computed, and the
\* second subunit of the first start differs from the first subunit of the
\* second start.
C14_Witness ==
    /\ helix # <<>>
    /\ helix[1].n_start = 2
    /\ helix[1].n_subunits = 4
    /\ helix[1].degrees
    /\ helix[1].twist = 90
    /\ cache.positions # <<>>
    /\ cache.rotations # <<>>
    /\ cache.positions[1][2] # cache.positions[1][3]
    /\ cache.rotations[1][2] # cache.rotations[1][3]

\* ------------------------------------- claims on the NUFFT coordinates

\* C15: every in-plane coordinate handed to the transform is scaled by the
\* length of the image axis it is transformed along (the d-th point argument
\* of nufft1 by shape[d]), so that a displacement by that length is a whole
\* number of periods; and the projection of the points without their depth
\* coordinate is the projection of the points.
C15_ScaledByTransformAxis ==
    fourier # <<>> =>
        LET call == fourier[1]
            n == Len(call.weights)
            in_plane == [j \in 1..n |-> SubSeq(call.coordinate_list[j], 1, 2)]
        IN  /\ \A d \in 1..2, j \in 1..n :
                  /\ call.points[d][j].den = call.shape[d]
                  /\ call.shape[d] % call.points[d][j].den = 0
            /\ ProjectWithNufft(call.weights, in_plane, call.shape).projection
                  = call.projection

\* ------------------------------------------ claims on cached properties

\* The value of the property called name computed from the fields of self.
FreshValue(self, name) ==
    LET poses == AssemblyPoses(self, HelixPositions(self), HelixRotations(self))
    IN  CASE name = "positions" -> HelixPositions(self)
          [] name = "rotations" -> HelixRotations(self)
          [] name = "poses" -> poses
          [] name = "subunits" -> AssemblySubunits(self, poses)

\* Every value stored in the instance __dict__ c of the assembly self is the
\* value computed from the fields of self.
StoredValuesFresh(self, c) ==
    /\ c.positions # <<>> => c.positions[1] = FreshValue(self, "positions")
    /\ c.rotations # <<>> => c.rotations[1] = FreshValue(self, "rotations")
    /\ c.poses # <<>> => c.poses[1] = FreshValue(self, "poses")
    /\ c.subunits # <<>> => c.subunits[1] = FreshValue(self, "subunits")

\* One step of a run, for C16.
C16_Step ==
    /\ helix' # <<>> => StoredValuesFresh(helix'[1], cache')
    /\ old' # <<>> => StoredValuesFresh(old'[1].self, old'[1].cache)
    /\ ret'.op \in PropertyNames =>
          /\ helix' = helix /\ old' = old
          /\ ret'.status = "ok" => ret'.value = FreshValue(helix[1], ret'.op)
    /\ \A name \in PropertyNames :
          ret'.op = OldPropertyOp(name) =>
              /\ helix' = helix /\ cache' = cache
              /\ old'[1].self = old[1].self
              /\ ret'.status = "ok" => ret'.value = FreshValue(old[1].self, name)
    /\ ret'.op = "update" =>
          /\ old' = <<[self |-> helix[1], cache |-> cache]>>
          /\ \A name \in PropertyNames :
                FreshValue(helix'[1], name) # FreshValue(helix[1], name) =>
                    cache'[name] = <<>>

\* C16: in every step of reads and functional updates, what an assembly has
\* stored for positions, rotations, poses and subunits is the value computed
\* from its own fields; a read changes no field of either assembly and
\* returns that value; and an update leaves the assembly it was made from
\* with its fields and stored values, and gives the new assembly no stored
\* value that its new fields change.
C16_CachedValuesFresh == [][C16_Step]_vars

\* C16 witness: after an update of the rise, the new assembly and the one it
\* was made from each hold their own, different, positions, the old one
\* having been read again last.
C16_Witness ==
    /\ helix # <<>>
    /\ old # <<>>
    /\ helix[1].rise # old[1].self.rise
    /\ cache.positions # <<>>
    /\ old[1].cache.positions # <<>>
    /\ cache.positions # old[1].cache.positions
    /\ ret.op = "old.positions"
    /\ ret.value = old[1].cache.positions[1]

====
